---------------------------- MODULE Spec2Model ----------------------------
(***************************************************************************)
(* Model of hs110exporter.py: the HS110data client (autokey XOR cipher,    *)
(* receive / get_data / reset_data, and the send retry state machine) and  *)
(* a metrics reader that calls get_data from the exposition thread.        *)
(***************************************************************************)
EXTENDS Integers, Sequences, FiniteSets, TLC

(***************************************************************************)
(* Program constants                                                       *)
(***************************************************************************)
\* SOCKET_RETRY = 100
SOCKET_RETRY == 100

\* self.__hs110_key = 171
hs110_key == 171

\* bytes([n]) accepts n in range(0, 256) only
ByteRange == 256

\* str.encode('latin-1', 'replace') writes '?' for a character it cannot encode
ReplacementByte == 63

(***************************************************************************)
(* Bounds of the model                                                     *)
(***************************************************************************)
\* plaintexts of every length 0..MaxShortLen are tried, besides the long ones
MaxShortLen == 3
\* generated plaintexts start at character 32 + seed, seed in 0..MaxSeed
MaxSeed == 3
\* frames handed to decrypt have every length 0..MaxFrameLen
MaxFrameLen == 5

(***************************************************************************)
(* Bytes and the cipher                                                    *)
(***************************************************************************)
RECURSIVE XorBits(_, _, _)
XorBits(a, b, n) ==
    IF n = 0 THEN 0
    ELSE (((a % 2) + (b % 2)) % 2) + 2 * XorBits(a \div 2, b \div 2, n - 1)

\* key ^ i for every pair of byte values, computed once
XorTable == [a \in 0..(ByteRange - 1) |-> [b \in 0..(ByteRange - 1) |-> XorBits(a, b, 8)]]

\* key ^ i on two byte values
Xor(a, b) == XorTable[a][b]

\* one character of string.encode('latin-1', 'replace')
Latin1EncodeChar(c) == IF c < ByteRange THEN c ELSE ReplacementByte

Latin1Encode(string) == [i \in 1..Len(string) |-> Latin1EncodeChar(string[i])]

\* result.decode('latin-1', 'replace'): every byte is the character of that code
Latin1Decode(bytes) == [i \in 1..Len(bytes) |-> bytes[i]]

Raise(e) == [err |-> e, out |-> <<>>]
Return(v) == [err |-> "none", out |-> v]

\* bytes([n])
BytesOf(n) == IF n \in 0..(ByteRange - 1) THEN Return(<<n>>) ELSE Raise("ValueError")

\* the loop of __encrypt, a = key ^ i; key = a; result += bytes([a]), run over
\* bytes[lo..hi] and entered with key; the range is halved so that the evaluation
\* stays shallow, the second half being entered with the last a of the first
RECURSIVE EncryptLoop(_, _, _, _)
EncryptLoop(bytes, lo, hi, key) ==
    IF lo > hi THEN <<>>
    ELSE IF lo = hi THEN <<Xor(key, bytes[lo])>>
    ELSE LET mid == (lo + hi) \div 2
             left == EncryptLoop(bytes, lo, mid, key)
         IN  left \o EncryptLoop(bytes, mid + 1, hi, left[Len(left)])

\* result = b"\0\0\0" + bytes([len(string)])
EncryptHeader(string) ==
    LET n == BytesOf(Len(string))
    IN  IF n.err # "none" THEN n ELSE Return(<<0, 0, 0>> \o n.out)

\* HS110data.__encrypt, with its @require contracts, on an object whose
\* __hs110_key is start: key = self.__hs110_key, then the loop
EncryptFrom(start, string) ==
    IF Len(string) = 0 THEN Raise("PreconditionError")
    ELSE LET h == EncryptHeader(string)
         IN  IF h.err # "none" THEN h
             ELSE Return(h.out \o EncryptLoop(Latin1Encode(string), 1, Len(string), start))

\* __encrypt on an object as __init__ leaves it
Encrypt(string) == EncryptFrom(hs110_key, string)

\* mutant: the loop of __encrypt runs on the attribute, which is left at the last a
KeyAfterEncryptRunning(start, string) ==
    LET e == EncryptFrom(start, string)
    IN  IF e.err = "none" THEN e.out[Len(e.out)] ELSE start

\* self.__hs110_key once __encrypt is over: the loop assigns the local key only
KeyAfterEncrypt(start, string) == start

\* the loop of __decrypt, a = key ^ i; key = i; result += bytes([a]), run over
\* data[lo..hi] and entered with key; the second half is entered with the last i
\* of the first
RECURSIVE DecryptLoop(_, _, _, _)
DecryptLoop(bytes, lo, hi, key) ==
    IF lo > hi THEN <<>>
    ELSE IF lo = hi THEN <<Xor(key, bytes[lo])>>
    ELSE LET mid == (lo + hi) \div 2
         IN  DecryptLoop(bytes, lo, mid, key) \o DecryptLoop(bytes, mid + 1, hi, bytes[mid])

\* mutant: the contract checks the length and not the three zero bytes
FramePreconditionLengthOnly(data) == Len(data) > 3

\* the @require shared by __decrypt and receive:
\* len(args.data) > 3 and args.data[0:3] == b"\0\0\0"
FramePrecondition(data) ==
    /\ Len(data) > 3
    /\ SubSeq(data, 1, 3) = <<0, 0, 0>>

\* mutant: the slice starts one byte early, data[3:]
StripHeaderThree(data) == SubSeq(data, 4, Len(data))

\* data[4:]
StripHeader(data) == SubSeq(data, 5, Len(data))

\* HS110data.__decrypt, with its @require contracts, on an object whose
\* __hs110_key is start: key = self.__hs110_key, then the loop
DecryptFrom(start, data) ==
    IF ~FramePrecondition(data) THEN Raise("PreconditionError")
    ELSE LET body == StripHeader(data)
         IN  Return(Latin1Decode(DecryptLoop(body, 1, Len(body), start)))

\* __decrypt on an object as __init__ leaves it
Decrypt(data) == DecryptFrom(hs110_key, data)

\* self.__hs110_key once __decrypt is over: the loop assigns the local key only
KeyAfterDecrypt(start, data) == start

(***************************************************************************)
(* Texts, as sequences of character codes                                  *)
(***************************************************************************)
\* cmd = '{"emeter":{"get_realtime":{}}}': {"emeter":{"get_realtime":{}}}
GetCmdText ==
    << 123, 34, 101, 109, 101, 116, 101, 114, 34, 58, 123, 34, 103, 101, 116, 95, 114, 101, 97, 108,
       116, 105, 109, 101, 34, 58, 123, 125, 125, 125 >>

\* the Hardware 1 sample reply of the comment in send: {"emeter":{"get_realtime":{"voltage":229865,"current":1110,"power":231866,"total":228,"err_code":0}}}
TextH1 ==
    << 123, 34, 101, 109, 101, 116, 101, 114, 34, 58, 123, 34, 103, 101, 116, 95, 114, 101, 97, 108,
       116, 105, 109, 101, 34, 58, 123, 34, 118, 111, 108, 116, 97, 103, 101, 34, 58, 50, 50, 57,
       56, 54, 53, 44, 34, 99, 117, 114, 114, 101, 110, 116, 34, 58, 49, 49, 49, 48, 44, 34,
       112, 111, 119, 101, 114, 34, 58, 50, 51, 49, 56, 54, 54, 44, 34, 116, 111, 116, 97, 108,
       34, 58, 50, 50, 56, 44, 34, 101, 114, 114, 95, 99, 111, 100, 101, 34, 58, 48, 125, 125,
       125 >>

\* the Hardware 2 sample reply of the comment in send: {"emeter":{"get_realtime":{"voltage_mv":229865,"current_ma":1110,"power_mw":231866,"total_wh":228,"err_code":0}}}
TextH2 ==
    << 123, 34, 101, 109, 101, 116, 101, 114, 34, 58, 123, 34, 103, 101, 116, 95, 114, 101, 97, 108,
       116, 105, 109, 101, 34, 58, 123, 34, 118, 111, 108, 116, 97, 103, 101, 95, 109, 118, 34, 58,
       50, 50, 57, 56, 54, 53, 44, 34, 99, 117, 114, 114, 101, 110, 116, 95, 109, 97, 34, 58,
       49, 49, 49, 48, 44, 34, 112, 111, 119, 101, 114, 95, 109, 119, 34, 58, 50, 51, 49, 56,
       54, 54, 44, 34, 116, 111, 116, 97, 108, 95, 119, 104, 34, 58, 50, 50, 56, 44, 34, 101,
       114, 114, 95, 99, 111, 100, 101, 34, 58, 48, 125, 125, 125 >>

\* a second Hardware 2 reply, with other readings: {"emeter":{"get_realtime":{"voltage_mv":7,"current_ma":5,"power_mw":3,"total_wh":2,"err_code":0}}}
TextH2b ==
    << 123, 34, 101, 109, 101, 116, 101, 114, 34, 58, 123, 34, 103, 101, 116, 95, 114, 101, 97, 108,
       116, 105, 109, 101, 34, 58, 123, 34, 118, 111, 108, 116, 97, 103, 101, 95, 109, 118, 34, 58,
       55, 44, 34, 99, 117, 114, 114, 101, 110, 116, 95, 109, 97, 34, 58, 53, 44, 34, 112, 111,
       119, 101, 114, 95, 109, 119, 34, 58, 51, 44, 34, 116, 111, 116, 97, 108, 95, 119, 104, 34,
       58, 50, 44, 34, 101, 114, 114, 95, 99, 111, 100, 101, 34, 58, 48, 125, 125, 125 >>

\* a reply whose get_realtime object carries no measurement: {"emeter":{"get_realtime":{"err_code":0}}}
TextPartial ==
    << 123, 34, 101, 109, 101, 116, 101, 114, 34, 58, 123, 34, 103, 101, 116, 95, 114, 101, 97, 108,
       116, 105, 109, 101, 34, 58, 123, 34, 101, 114, 114, 95, 99, 111, 100, 101, 34, 58, 48, 125,
       125, 125 >>

\* a JSON object without the emeter/get_realtime path: {}
TextNoPath ==
    << 123, 125 >>

\* JSON that is not an object: 1
TextScalar ==
    << 49 >>

\* text that is not JSON: x
TextGarbage ==
    << 120 >>

(***************************************************************************)
(* Decoded payloads and the data model                                     *)
(***************************************************************************)
NoFields == [k \in {} |-> 0]

\* a dict with the emeter/get_realtime path; rt is the get_realtime object
Payload(rt) == [t |-> "dict", has |-> TRUE, rt |-> rt]
\* a dict without that path
DictNoPath == [t |-> "dict", has |-> FALSE, rt |-> NoFields]
\* a JSON value that is no dict
NotADict == [t |-> "scalar", has |-> FALSE, rt |-> NoFields]

\* json.loads on the texts a device reply is drawn from; any other text is not JSON
JsonLoads(text) ==
    CASE text = TextH1 ->
            Return(Payload([voltage |-> 229865, current |-> 1110, power |-> 231866,
                            total |-> 228, err_code |-> 0]))
      [] text = TextH2 ->
            Return(Payload([voltage_mv |-> 229865, current_ma |-> 1110,
                            power_mw |-> 231866, total_wh |-> 228, err_code |-> 0]))
      [] text = TextH2b ->
            Return(Payload([voltage_mv |-> 7, current_ma |-> 5, power_mw |-> 3,
                            total_wh |-> 2, err_code |-> 0]))
      [] text = TextPartial -> Return(Payload([err_code |-> 0]))
      [] text = GetCmdText -> Return([t |-> "dict", has |-> TRUE, rt |-> NoFields])
      [] text = TextNoPath -> Return(DictNoPath)
      [] text = TextScalar -> Return(NotADict)
      [] OTHER -> Raise("JSONDecodeError")

HardwareVersions == {"h1", "h2"}
Items == {"current", "voltage", "power", "total"}

\* self.__keyname
keyname ==
    [h \in HardwareVersions |->
        IF h = "h1"
        THEN [current |-> "current", voltage |-> "voltage", power |-> "power",
              total |-> "total"]
        ELSE [current |-> "current_ma", voltage |-> "voltage_mv", power |-> "power_mw",
              total |-> "total_wh"]]

\* HS110data.__empty_data
empty_data(hw) ==
    Payload([k \in {keyname[hw][i] : i \in Items} \cup {"err_code"} |-> 0])

\* mutant: Hardware 1 is recognised by its key "current", anything else is h2
DetectHardwareByCurrent(rd) ==
    IF rd.t # "dict" THEN Raise("TypeError")
    ELSE IF ~rd.has THEN Raise("KeyError")
    ELSE IF "current" \in DOMAIN rd.rt THEN Return("h1")
    ELSE Return("h2")

\* the test of receive: "current_ma" in self.__received_data['emeter']['get_realtime']
\* raises TypeError on a value that is no dict and KeyError on a dict without the path
DetectHardware(rd) ==
    IF rd.t # "dict" THEN Raise("TypeError")
    ELSE IF ~rd.has THEN Raise("KeyError")
    ELSE IF "current_ma" \in DOMAIN rd.rt THEN Return("h2")
    ELSE Return("h1")

\* HS110data.get_data on a payload and a hardware version read from the object
GetData(rd, hw, item) ==
    IF rd.t # "dict" THEN [err |-> "TypeError", out |-> 0]
    ELSE IF ~rd.has THEN [err |-> "KeyError", out |-> 0]
    ELSE IF item \notin Items THEN [err |-> "KeyError", out |-> 0]
    ELSE IF keyname[hw][item] \notin DOMAIN rd.rt THEN [err |-> "KeyError", out |-> 0]
    ELSE [err |-> "none", out |-> rd.rt[keyname[hw][item]]]

\* HS110data.__str__: the key=value parts it joins, one per key of get_realtime
str_parts(rd) == { <<k, rd.rt[k]>> : k \in DOMAIN rd.rt }

(***************************************************************************)
(* Inputs                                                                  *)
(***************************************************************************)
\* what the device sends for a text: the 4-byte header and the cipher stream
FrameOf(text) == Encrypt(text).out

\* the replies recv(2048) may return
DeviceReplies ==
    { FrameOf(TextH1), FrameOf(TextH2), FrameOf(TextH2b), FrameOf(TextPartial),
      FrameOf(TextNoPath), FrameOf(TextScalar), FrameOf(TextGarbage),
      <<>>, <<0, 0>>, <<1, 0, 0, 1, 208>>, <<0, 0, 0, 0>> }

(***************************************************************************)
(* State                                                                   *)
(***************************************************************************)
VARIABLES
    hardware,        \* self.__hardware
    received_data,   \* self.__received_data
    socket_counter,  \* self.__socket_counter
    object_key,      \* self.__hs110_key
    command,         \* the frame connect handed to the send call in progress or last ended
    pc,              \* where the polling thread is in send, or "idle" in the main loop
    sock,            \* sock_tcp of the send call in progress or last ended
    data,            \* the local data of send: the reply recv returned
    ended,           \* how the last send call ended
    fails,           \* transport failures in a row up to now (observation only)
    recovered,       \* the last transport success came after a failure (observation only)
    scrape,          \* the metrics thread's get_data call
    c_pc,            \* cipher exercise: which operation has been applied
    c_string,        \* cipher exercise: the plaintext handed to __encrypt
    c_frame,         \* cipher exercise: the frame handed to __decrypt
    c_enc,           \* cipher exercise: what __encrypt returned or raised
    c_dec            \* cipher exercise: what __decrypt returned or raised

clientVars == <<hardware, received_data, socket_counter, object_key, command, pc, sock,
                data, ended, fails, recovered>>
cipherVars == <<c_pc, c_string, c_frame, c_enc, c_dec>>
vars == <<clientVars, scrape, cipherVars>>

ScrapeIdle == [pc |-> "idle", item |-> "none", seen |-> NotADict, hw |-> "none"]

\* HS110data.__init__, as main constructs it or with hardware_version='h1'
ClientInit ==
    /\ hardware \in HardwareVersions
    /\ received_data = empty_data(hardware)
    /\ socket_counter = SOCKET_RETRY
    /\ object_key = hs110_key
    /\ command = <<>>
    /\ pc = "idle"
    /\ sock = "none"
    /\ data = <<>>
    /\ ended = "none"
    /\ fails = 0
    /\ recovered = FALSE
    /\ scrape = ScrapeIdle

NotRun == [err |-> "not run", out |-> <<>>]

CipherIdle ==
    /\ c_pc = "none"
    /\ c_string = <<>>
    /\ c_frame = <<>>
    /\ c_enc = NotRun
    /\ c_dec = NotRun

Init == ClientInit /\ CipherIdle

(***************************************************************************)
(* send, step by step                                                      *)
(***************************************************************************)
\* HS110data.get_cmd: self.__encrypt(cmd) on the object as it is now
get_cmd == EncryptFrom(object_key, GetCmdText)

\* the main loop calls connect, which calls self.send(self.get_cmd()):
\* socket.socket(...), settimeout(2)
SendOpen ==
    /\ pc = "idle"
    /\ command' = get_cmd.out
    /\ object_key' = KeyAfterEncrypt(object_key, GetCmdText)
    /\ pc' = "connect"
    /\ sock' = "created"
    /\ data' = <<>>
    /\ ended' = "running"
    /\ UNCHANGED <<hardware, received_data, socket_counter, fails, recovered>>
    /\ UNCHANGED <<scrape, cipherVars>>

\* mutant: a failure costs two retries
DecrementTwice(counter) == counter - 2

\* self.__socket_counter -= 1
Decrement(counter) == counter - 1

\* mutant: the limit test passes only once the counter is below zero
RetryLimitReachedLate(counter) == counter < 0

\* mutant: the limit test fires one failure early
RetryLimitReachedEarly(counter) == counter <= 1

\* if self.__socket_counter == 0
RetryLimitReached(counter) == counter = 0

\* except socket.error: the counter goes down and at 0 sys.exit ends the process.
\* The handler does not close sock_tcp: when send returns, the socket is closed
\* only if the runtime has already reclaimed the local (reference counting does,
\* a tracing collector need not); when SystemExit propagates, the traceback keeps
\* the frame and so the socket
SocketErrorHandler ==
    /\ socket_counter' = Decrement(socket_counter)
    /\ IF RetryLimitReached(socket_counter')
       THEN pc' = "exited" /\ ended' = "SystemExit" /\ sock' = sock
       ELSE pc' = "idle" /\ ended' = "A" /\ sock' \in {sock, "closed"}
    /\ fails' = fails + 1
    /\ UNCHANGED <<hardware, received_data, object_key, command, data, recovered>>
    /\ UNCHANGED <<scrape, cipherVars>>

\* sock_tcp.connect raises socket.error (refused, unreachable, timeout)
ConnectFail ==
    /\ pc = "connect"
    /\ SocketErrorHandler

\* sock_tcp.connect returns
ConnectOk ==
    /\ pc = "connect"
    /\ pc' = "exchange"
    /\ sock' = "connected"
    /\ UNCHANGED <<hardware, received_data, socket_counter, object_key, command, data,
                   ended, fails, recovered>>
    /\ UNCHANGED <<scrape, cipherVars>>

\* sock_tcp.send or sock_tcp.recv raises socket.error
ExchangeFail ==
    /\ pc = "exchange"
    /\ SocketErrorHandler

\* mutant: the counter is not set back after a transport success
CounterNotReset(counter) == counter

\* the counter after connect, send and recv have returned
CounterAfterTransport(counter) == SOCKET_RETRY

\* sock_tcp.send, data = sock_tcp.recv(2048), sock_tcp.close(),
\* self.__socket_counter = SOCKET_RETRY
ExchangeOk(reply) ==
    /\ pc = "exchange"
    /\ data' = reply
    /\ sock' = "closed"
    /\ socket_counter' = CounterAfterTransport(socket_counter)
    /\ recovered' = (fails > 0)
    /\ fails' = 0
    /\ pc' = "receive"
    /\ UNCHANGED <<hardware, received_data, object_key, command, ended>>
    /\ UNCHANGED <<scrape, cipherVars>>

\* HS110data.reset_data
reset_data(hw) == empty_data(hw)

\* what self.receive(data) does up to its first assignment: the @require contracts,
\* then json.loads(self.__decrypt(data)), any exception of which becomes ValueError
ReceiveParse(frame) ==
    IF ~FramePrecondition(frame) THEN Raise("PreconditionError")
    ELSE LET text == DecryptFrom(object_key, frame)
         IN  IF text.err # "none" THEN Raise("ValueError")
             ELSE LET parsed == JsonLoads(text.out)
                  IN  IF parsed.err # "none" THEN Raise("ValueError") ELSE parsed

\* mutant: the decoded payload is merged into the stored one, key by key
StoredMerged(previous, parsed) ==
    [t |-> parsed.t, has |-> parsed.has,
     rt |-> [k \in DOMAIN previous.rt \cup DOMAIN parsed.rt |->
                IF k \in DOMAIN parsed.rt THEN parsed.rt[k] ELSE previous.rt[k]]]

\* self.__received_data = json.loads(...): the attribute is bound to the new object
StoredAfterReceive(previous, parsed) == parsed

\* which exceptions of self.receive the handlers of send catch
CaughtBySend(e) == e = "ValueError"

\* self.receive(data), first half: self.__received_data = json.loads(...);
\* a ValueError is caught by send, which resets the data (failure path B);
\* any other exception leaves send and the main loop
ReceiveStore ==
    /\ pc = "receive"
    /\ LET r == ReceiveParse(data)
       IN  IF r.err = "none"
           THEN /\ received_data' = StoredAfterReceive(received_data, r.out)
                /\ pc' = "detect"
                /\ UNCHANGED ended
           ELSE IF CaughtBySend(r.err)
           THEN /\ received_data' = reset_data(hardware)
                /\ pc' = "idle"
                /\ ended' = "B"
           ELSE /\ pc' = "crashed"
                /\ ended' = r.err
                /\ UNCHANGED received_data
    /\ object_key' = IF FramePrecondition(data) THEN KeyAfterDecrypt(object_key, data)
                      ELSE object_key
    /\ UNCHANGED <<hardware, socket_counter, command, sock, data, fails, recovered>>
    /\ UNCHANGED <<scrape, cipherVars>>

\* self.receive(data), second half: self.__hardware = 'h2' or 'h1';
\* the KeyError or TypeError of the subscripts leaves send and the main loop
ReceiveDetect ==
    /\ pc = "detect"
    /\ LET d == DetectHardware(received_data)
       IN  IF d.err = "none"
           THEN /\ hardware' = d.out
                /\ pc' = "idle"
                /\ ended' = "ok"
           ELSE /\ pc' = "crashed"
                /\ ended' = d.err
                /\ UNCHANGED hardware
    /\ UNCHANGED <<received_data, socket_counter, object_key, command, sock, data, fails,
                   recovered>>
    /\ UNCHANGED <<scrape, cipherVars>>

ProcessAlive == pc \notin {"exited", "crashed"}

(***************************************************************************)
(* get_data, called by the metrics thread at any moment                    *)
(***************************************************************************)
\* get_data evaluates self.__received_data[...][...] first ...
ScrapeLoad(item) ==
    /\ ProcessAlive
    /\ scrape.pc # "loaded"
    /\ scrape' = [pc |-> "loaded", item |-> item, seen |-> received_data, hw |-> "none"]
    /\ UNCHANGED <<clientVars, cipherVars>>

\* ... and self.__keyname[self.__hardware][item] after it
ScrapeResolve ==
    /\ ProcessAlive
    /\ scrape.pc = "loaded"
    /\ scrape' = [scrape EXCEPT !.pc = "done", !.hw = hardware]
    /\ UNCHANGED <<clientVars, cipherVars>>

\* what the get_data call of the metrics thread returned or raised
ScrapeResult == GetData(scrape.seen, scrape.hw, scrape.item)

Polling ==
    \/ SendOpen
    \/ ConnectFail
    \/ ConnectOk
    \/ ExchangeFail
    \/ \E reply \in DeviceReplies : ExchangeOk(reply)
    \/ ReceiveStore
    \/ ReceiveDetect

Scraping ==
    \/ \E item \in Items : ScrapeLoad(item)
    \/ ScrapeResolve

Next == Polling \/ Scraping

Spec == Init /\ [][Next]_vars

(***************************************************************************)
(* The cipher on its own: __encrypt and __decrypt applied to drawn inputs  *)
(***************************************************************************)
\* a printable ASCII string of the given length
GenString(len, seed) == [i \in 1..len |-> 32 + ((seed + i) % 95)]

AsciiChars == 0..127

IsAscii(string) == \A i \in 1..Len(string) : string[i] \in AsciiChars

\* plaintexts: generated strings, short and around the one-byte length limit,
\* every one-character ASCII string, the texts of the protocol, and strings
\* with a Latin-1 and with a non-Latin-1 character
PlainInputs ==
    { GenString(len, seed) :
        len \in (0..MaxShortLen) \cup {ByteRange - 1, ByteRange, ByteRange + 1},
        seed \in 0..MaxSeed }
    \cup { <<c>> : c \in AsciiChars }
    \cup { GetCmdText, TextH2, <<233>>, <<65, 8364, 66>> }

FrameBytes == {0, 1, hs110_key}

\* frames: every byte string over FrameBytes up to MaxFrameLen bytes
FrameInputs == UNION { [1..n -> FrameBytes] : n \in 0..MaxFrameLen }

CipherInit ==
    /\ ClientInit
    /\ c_enc = NotRun
    /\ c_dec = NotRun
    /\ \/ c_pc = "plain" /\ c_string \in PlainInputs /\ c_frame = <<>>
       \/ c_pc = "frame" /\ c_frame \in FrameInputs /\ c_string = <<>>

\* self.__encrypt(string)
CipherEncrypt ==
    /\ c_pc = "plain"
    /\ c_enc' = Encrypt(c_string)
    /\ c_pc' = "encrypted"
    /\ UNCHANGED <<c_string, c_frame, c_dec>>
    /\ UNCHANGED <<clientVars, scrape>>

\* self.__decrypt on the frame __encrypt returned
CipherRoundTrip ==
    /\ c_pc = "encrypted"
    /\ c_enc.err = "none"
    /\ c_frame' = c_enc.out
    /\ c_dec' = Decrypt(c_enc.out)
    /\ c_pc' = "round trip"
    /\ UNCHANGED <<c_string, c_enc>>
    /\ UNCHANGED <<clientVars, scrape>>

\* self.__decrypt(data) on a drawn frame
CipherDecrypt ==
    /\ c_pc = "frame"
    /\ c_dec' = Decrypt(c_frame)
    /\ c_pc' = "decrypted"
    /\ UNCHANGED <<c_string, c_frame, c_enc>>
    /\ UNCHANGED <<clientVars, scrape>>

CipherNext ==
    \/ CipherEncrypt
    \/ CipherRoundTrip
    \/ CipherDecrypt

SpecCipher == CipherInit /\ [][CipherNext]_vars

(***************************************************************************)
(* Claims                                                                  *)
(***************************************************************************)
\* the send call has returned to the main loop, or ended the process
Returned == pc \in {"idle", "exited", "crashed"} /\ ended # "none"

\* connect, send and recv of the call in progress or last ended all returned
TransportSucceeded ==
    \/ pc \in {"receive", "detect"}
    \/ Returned /\ ended \in {"ok", "B", "PreconditionError", "KeyError", "TypeError"}

\* the payload the Hardware 2 sample reply decodes to
SampleH2 == JsonLoads(TextH2).out

\* C1, exits: the fatal exit has happened exactly when SOCKET_RETRY transport
\* failures have come in a row, so on the 100th and not earlier; the process has
\* then ended, so it happens once and no further failure is counted.
C1_ExitOnHundredthFailure ==
    /\ (pc = "exited") <=> (fails = SOCKET_RETRY)
    /\ fails <= SOCKET_RETRY
    /\ pc = "exited" => ended = "SystemExit" /\ socket_counter = 0

\* C1: 100 transport failures in a row from a full counter trigger the fatal exit
\* exactly once, on the 100th failure and not earlier, and every step that counts a
\* transport failure leaves the stored sample as it was.
C1_RetryExhaustion ==
    /\ []C1_ExitOnHundredthFailure
    /\ [][fails' > fails => received_data' = received_data /\ hardware' = hardware]_vars

\* C1 witness: the process has exited on the 100th failure in a row, still
\* holding the readings of the last reply.
C1_Witness ==
    /\ pc = "exited"
    /\ fails = SOCKET_RETRY
    /\ socket_counter = 0
    /\ received_data = SampleH2

\* C2: whatever the device replies after a successful transport, no
\* error other than the retry-exhausted exit leaves send.
C2_NoErrorEscapes ==
    Returned => ended \in {"ok", "A", "B", "SystemExit"}

\* C3: once send has returned or ended the process, the socket it
\* opened is closed.
C3_SocketClosedOnReturn ==
    Returned => sock = "closed"

\* C4: a get_data call of the metrics thread that finds the
\* get_realtime object resolves the field name with the hardware version that
\* was detected from that very payload.
C4_NoTornRead ==
    (scrape.pc = "done" /\ scrape.seen.has)
        => DetectHardware(scrape.seen).out = scrape.hw

\* the reply of the last call is not valid structured data: it fails the frame
\* contract or its text is not JSON
ReplyNotDecodable == ReceiveParse(data).err # "none"

\* C5: when the transport succeeded and the reply does not decode to
\* valid structured data, send returns with the sample reset to the empty state
\* and the counter at SOCKET_RETRY.
C5_DecodeFailureResets ==
    (Returned /\ TransportSucceeded /\ ReplyNotDecodable)
        => /\ received_data = empty_data(hardware)
           /\ socket_counter = SOCKET_RETRY

\* C6: once connect, send and recv of a call have returned, the counter is
\* SOCKET_RETRY, whatever the number of failures before and whether or not the
\* reply decodes.
C6_RetryReset ==
    TransportSucceeded => socket_counter = SOCKET_RETRY

\* C6 witness: a call that followed transport failures got a reply that does not
\* decode, and has returned with the counter at SOCKET_RETRY.
C6_Witness ==
    /\ recovered
    /\ pc = "idle"
    /\ ended = "B"
    /\ socket_counter = SOCKET_RETRY

\* C7: between two send calls each of the four accessors returns a
\* number for the stored data and the detected hardware version.
C7_SampleAlwaysValid ==
    pc = "idle" => \A item \in Items : GetData(received_data, hardware, item).err = "none"

\* __encrypt has been applied to a non-empty ASCII plaintext
AsciiEncrypted ==
    /\ c_pc \in {"encrypted", "round trip"}
    /\ Len(c_string) > 0
    /\ IsAscii(c_string)

\* decode(encode(s)) returned s
RoundTripReturns ==
    /\ c_enc.err = "none"
    /\ c_pc = "round trip" => c_dec.err = "none" /\ c_dec.out = c_string

\* C8: for every non-empty ASCII string, of any length,
\* decode(encode(s)) returns s.
C8_RoundTripAnyLength ==
    AsciiEncrypted => RoundTripReturns

\* the first three bytes of the frame are not all zero
HeaderNotZero(frame) ==
    \E i \in 1..3 : i <= Len(frame) /\ frame[i] # 0

\* C9 (as claimed): decode rejects every frame shorter than 5 bytes and every
\* frame whose first 3 bytes are not all zero.
C9_RejectsShorterThanFive ==
    (c_pc = "decrypted" /\ (Len(c_frame) < 5 \/ HeaderNotZero(c_frame)))
        => c_dec.err = "PreconditionError"

\* C9 (amended): decode rejects every frame shorter than 4 bytes and every frame
\* whose first 3 bytes are not all zero, and returns no plaintext for it; a
\* 4-byte frame of three zero bytes and any fourth byte is accepted and decodes
\* to the empty string.
C9_RejectsShorterThanFour ==
    c_pc = "decrypted" =>
        /\ (Len(c_frame) < 4 \/ HeaderNotZero(c_frame))
              => c_dec.err = "PreconditionError" /\ c_dec.out = <<>>
        /\ (Len(c_frame) = 4 /\ ~HeaderNotZero(c_frame))
              => c_dec.err = "none" /\ c_dec.out = <<>>

\* C9 witness: a 5-byte frame whose third byte is not zero has been rejected.
C9_Witness ==
    /\ c_pc = "decrypted"
    /\ Len(c_frame) = 5
    /\ c_frame[3] # 0
    /\ c_dec.err = "PreconditionError"

\* the frame is three zero bytes, the length byte, and the autokey stream of the
\* plaintext: each byte is the plaintext byte xor the key, the key being 171
\* first and the stream byte just produced after that
IsFrameOf(frame, string, lengthByte) ==
    /\ Len(frame) = 4 + Len(string)
    /\ SubSeq(frame, 1, 4) = <<0, 0, 0, lengthByte>>
    /\ \A i \in 1..Len(string) :
          frame[4 + i] = Xor(IF i = 1 THEN hs110_key ELSE frame[4 + i - 1],
                             Latin1EncodeChar(string[i]))

\* C10: for every non-empty plaintext encode returns the frame with
\* the length modulo 256 in the fourth byte, also for 256 characters and more.
C10_FrameForEveryLength ==
    (c_pc \in {"encrypted", "round trip"} /\ Len(c_string) > 0)
        => /\ c_enc.err = "none"
           /\ IsFrameOf(c_enc.out, c_string, Len(c_string) % ByteRange)

\* the hardware version the stored payload calls for
VariantOfStored == IF "current_ma" \in DOMAIN received_data.rt THEN "h2" ELSE "h1"

\* C11, detection: when send has returned after a full success, the hardware
\* version is h2 if the stored get_realtime object has the key current_ma and h1
\* otherwise, whatever it was before.
C11_DetectedFromPayload ==
    (pc = "idle" /\ ended = "ok") => hardware = VariantOfStored

\* C11: after every successful decode the detected variant is the one of that
\* payload alone (h2 with current_ma, h1 without), and the hardware version
\* changes in no step but the one that completes a full success, so a call that
\* ends in failure path A or B leaves it as it was.
C11_VariantDetection ==
    /\ []C11_DetectedFromPayload
    /\ [][hardware' # hardware => ended' = "ok"]_vars

\* C11 witness: a reply with the key current and without current_ma has been
\* decoded and Hardware 1 is detected.
C11_Witness ==
    /\ pc = "idle"
    /\ ended = "ok"
    /\ "current" \in DOMAIN received_data.rt
    /\ hardware = "h1"

\* the frame __encrypt returns for the Hardware 2 sample reply (key 171)
GoldenReply ==
    << 0, 0, 0, 113, 208, 242, 151, 250, 159, 235, 142, 252, 222, 228, 159, 189, 218, 191, 203, 148,
       230, 131, 226, 142, 250, 147, 254, 155, 185, 131, 248, 218, 172, 195, 175, 219, 186, 221, 184, 231,
       138, 252, 222, 228, 214, 228, 221, 229, 211, 230, 202, 232, 139, 254, 140, 254, 155, 245, 129, 222,
       179, 210, 240, 202, 251, 202, 251, 203, 231, 197, 181, 218, 173, 200, 186, 229, 136, 255, 221, 231,
       213, 230, 215, 239, 217, 239, 195, 225, 149, 250, 142, 239, 131, 220, 171, 195, 225, 219, 233, 219,
       227, 207, 237, 136, 250, 136, 215, 180, 219, 191, 218, 248, 194, 242, 143, 242, 143 >>

\* get_data(item) returns the number
Reads(item, number) ==
    GetData(received_data, hardware, item) = [err |-> "none", out |-> number]

\* C12: once send has returned from a call in which the device replied with the
\* golden frame, the call has fully succeeded, Hardware 2 is detected, get_data
\* returns voltage 229865, current 1110, power 231866 and total 228, and the
\* stored error code, as __str__ shows it, is 0.
C12_GoldenReplyDecoded ==
    (Returned /\ data = GoldenReply) =>
        /\ ended = "ok"
        /\ hardware = "h2"
        /\ Reads("voltage", 229865)
        /\ Reads("current", 1110)
        /\ Reads("power", 231866)
        /\ Reads("total", 228)
        /\ <<"err_code", 0>> \in str_parts(received_data)

\* C12 witness: after earlier transport failures the client has decoded the golden
\* reply.
C12_Witness ==
    /\ pc = "idle"
    /\ data = GoldenReply
    /\ data = FrameOf(TextH2)
    /\ ended = "ok"
    /\ recovered

\* the step is the one in which a send call ends in the socket.error handler
EndsInTransportFailure == ended = "running" /\ ended' \in {"A", "SystemExit"}

\* the step is one that a send call takes before the outcome of its transport
\* is known: creating the socket, connecting
BeforeTransportOutcome == pc' # pc /\ pc' \in {"connect", "exchange"}

\* C13: a send call that ends in a transport failure lowers the counter by
\* exactly 1, in the step that handles the failure, and neither that step nor the
\* steps of the call before it change the stored data or the hardware version.
C13_TransportFailureFrame ==
    [][/\ EndsInTransportFailure =>
            /\ socket_counter' = socket_counter - 1
            /\ received_data' = received_data
            /\ hardware' = hardware
       /\ BeforeTransportOutcome =>
            /\ socket_counter' = socket_counter
            /\ received_data' = received_data
            /\ hardware' = hardware]_vars

\* C13 witness: three calls in a row have ended in a transport failure; the
\* counter is 97 and the readings of the Hardware 2 reply are still stored.
C13_Witness ==
    /\ pc = "idle"
    /\ ended = "A"
    /\ fails = 3
    /\ socket_counter = SOCKET_RETRY - 3
    /\ received_data = SampleH2
    /\ hardware = "h2"

\* C14: the counter is always an integer from 0 to SOCKET_RETRY; it is
\* SOCKET_RETRY while no send call has been made; it is 0 only once the exit has
\* been triggered, so every call in progress and every call about to start
\* has a counter of at least 1.
C14_CounterRange ==
    /\ socket_counter \in 0..SOCKET_RETRY
    /\ ended = "none" => socket_counter = SOCKET_RETRY
    /\ socket_counter = 0 => pc = "exited" /\ ended = "SystemExit"
    /\ pc \in {"idle", "connect", "exchange", "receive", "detect"} => socket_counter >= 1

\* C14 witness: the exit has been triggered with the counter at 0, in a run in
\* which the counter had been set back to SOCKET_RETRY after earlier failures.
C14_Witness ==
    /\ socket_counter = 0
    /\ pc = "exited"
    /\ recovered

\* C15: the counter is SOCKET_RETRY less the number of send calls that have ended
\* in a transport failure since the latest call whose transport succeeded (or
\* since construction), whatever happened before that call; the exit is only
\* triggered when that number is SOCKET_RETRY, and a run of fewer failures leaves
\* the process running however many calls failed before the latest success.
C15_ExitOnlyAfterFullWindow ==
    /\ socket_counter = SOCKET_RETRY - fails
    /\ pc = "exited" => fails >= SOCKET_RETRY
    /\ (fails < SOCKET_RETRY /\ ended \in {"A", "B", "ok"}) => pc = "idle"

\* C15 witness: after at least one failed call and then a call whose transport
\* succeeded, SOCKET_RETRY - 1 calls in a row have failed (SOCKET_RETRY or more
\* failures in total), and the process is still running.
C15_Witness ==
    /\ recovered
    /\ fails = SOCKET_RETRY - 1
    /\ ended = "A"
    /\ pc = "idle"

\* C16: when a send call has returned with the reply decoded and the hardware
\* version detected, the stored data is exactly the payload decoded from that
\* reply: it has the keys of the reply and no others, every number get_data
\* returns is the reply's value under the key of the detected version, and the
\* counter is SOCKET_RETRY.
C16_SampleReplacedWhole ==
    (pc = "idle" /\ ended = "ok") =>
        LET new == ReceiveParse(data).out
        IN  /\ received_data = new
            /\ DOMAIN received_data.rt = DOMAIN new.rt
            /\ \A item \in Items :
                   LET got == GetData(received_data, hardware, item)
                   IN  got.err = "none" =>
                           /\ keyname[hardware][item] \in DOMAIN new.rt
                           /\ got.out = new.rt[keyname[hardware][item]]
            /\ socket_counter = SOCKET_RETRY

\* C16 witness: a reply with err_code alone has been decoded; the stored data
\* has that one key, none of the readings stored before it is left, and the
\* version has been set to Hardware 1.
C16_Witness ==
    /\ pc = "idle"
    /\ ended = "ok"
    /\ data = FrameOf(TextPartial)
    /\ DOMAIN received_data.rt = {"err_code"}
    /\ hardware = "h1"
    /\ socket_counter = SOCKET_RETRY

\* the frame the Python __encrypt returns for cmd on a new HS110data object
GoldenCmd ==
    << 0, 0, 0, 30, 208, 242, 151, 250, 159, 235, 142, 252, 222, 228, 159, 189, 218, 191,
       203, 148, 230, 131, 226, 142, 250, 147, 254, 155, 185, 131, 248, 133, 248, 133 >>

\* the frame get_cmd returns on an object as __init__ leaves it
FreshCmd == Encrypt(GetCmdText)

\* C17: whatever send calls have been made and however they ended, the object's
\* key is the one __init__ set, the frame handed to every send call was the frame
\* get_cmd returns on a new object, byte for byte, and whenever the main loop is
\* about to call connect, get_cmd returns that frame.
C17_RequestFrameFixed ==
    /\ object_key = hs110_key
    /\ FreshCmd = Return(GoldenCmd)
    /\ ended # "none" => command = GoldenCmd
    /\ pc = "idle" => get_cmd = FreshCmd

\* C17 witness: a send call is in progress with the same frame as the first one,
\* after a call that decoded a Hardware 2 reply, which itself came after a failed
\* call, and after two more failed calls.
C17_Witness ==
    /\ pc = "exchange"
    /\ command = GoldenCmd
    /\ recovered
    /\ fails = 2
    /\ received_data = SampleH2

=============================================================================
